---- MODULE Spec2Model ----
(***************************************************************************)
(* Weather source cascade and Go/No-Go decision of uas_weather_app.        *)
(*   src/app.py          the request handler index() and its adapters      *)
(*   src/Working/app.py  the earlier variant of the same handler           *)
(* One request is handled at a time; pc is the handler's position.  Every  *)
(* external service answers nondeterministically from a small set.         *)
(* Units: time in seconds, wind in tenths of mph (knots in tenths of kt),  *)
(* visibility in tenths of a statute mile, cloud base in feet, angles in   *)
(* arcseconds.  Text is a sequence of one-character strings.               *)
(***************************************************************************)
EXTENDS Integers, Sequences, FiniteSets, TLC

VARIABLES
    pc,             \* position of the handler
    variant,        \* which program handles the request: "app" or "Working"
    form,           \* request.form
    selected_time,  \* flight time, UTC seconds
    delta,          \* selected_time - now
    lat, lon,       \* resolved coordinates
    nws_data,       \* result of get_nws_grid (None or Some(data))
    metar_station,  \* None or Some(station code)
    source, cloud_base, visibility, wind_mph, condition,
    sunrise, sunset,
    result,         \* None or Some(result dictionary)
    error,          \* None or Some(error text)
    calls,          \* adapters invoked by this request, in order
    net,            \* network requests made by this request, in order
    answer,         \* what the last network request of this request returned
    nws_cache       \* process-wide cache of get_nws_grid

vars == <<pc, variant, form, selected_time, delta, lat, lon, nws_data,
          metar_station, source, cloud_base, visibility, wind_mph, condition,
          sunrise, sunset, result, error, calls, net, answer, nws_cache>>

(***************************************************************************)
(* Python values                                                           *)
(***************************************************************************)
None == <<>>
Some(x) == <<x>>
Val(o) == o[1]

\* A float: a finite value v (in tenths) or NaN, which float() parses from "nan".
F(v) == [nan |-> FALSE, v |-> v]
NaN == [nan |-> TRUE, v |-> 0]
\* IEEE comparisons: every comparison with NaN is false.
FGt(x, limit) == ~x.nan /\ x.v > limit
FLt(x, limit) == ~x.nan /\ x.v < limit
FLe(x, limit) == ~x.nan /\ x.v <= limit
FGe(x, limit) == ~x.nan /\ x.v >= limit

Abs(n) == IF n < 0 THEN -n ELSE n

UpperAlpha == <<"A","B","C","D","E","F","G","H","I","J","K","L","M",
                "N","O","P","Q","R","S","T","U","V","W","X","Y","Z">>
LowerAlpha == <<"a","b","c","d","e","f","g","h","i","j","k","l","m",
                "n","o","p","q","r","s","t","u","v","w","x","y","z">>
LowerChar(c) ==
    IF \E i \in DOMAIN UpperAlpha : UpperAlpha[i] = c
    THEN LowerAlpha[CHOOSE i \in DOMAIN UpperAlpha : UpperAlpha[i] = c]
    ELSE c
\* str.lower()
Lower(s) == [i \in DOMAIN s |-> LowerChar(s[i])]
\* term in s
Contains(s, term) ==
    \E i \in 1..(Len(s) - Len(term) + 1) : SubSeq(s, i, i + Len(term) - 1) = term

(***************************************************************************)
(* Program constants                                                       *)
(***************************************************************************)
MAX_WIND_MPH == 157
MIN_VISIBILITY_SM == 30
MIN_CLOUD_BASE_FT == 500
BAD_CONDITIONS == << <<"r","a","i","n">>, <<"s","n","o","w">>, <<"f","o","g">>,
                     <<"t","h","u","n","d","e","r","s","t","o","r","m">>,
                     <<"m","i","s","t">> >>
Unlimited == 10000
TwoHours == 7200
ThirtyHours == 108000

\* FLIGHT_SITES and SITE_METAR_MAP of src/app.py (coordinates to the arcsecond).
FLIGHT_SITES ==
    [UAFS |-> [lat |-> 130184, lon |-> -348608],
     CENFEX |-> [lat |-> 130886, lon |-> -348703]]
SITE_METAR_MAP == [UAFS |-> "KSWO", CENFEX |-> "KSWO"]
\* FLIGHT_SITES of src/Working/app.py.
W_FLIGHT_SITES ==
    [UAFS |-> [lat |-> 130184, lon |-> -355810, station |-> "KSWO"],
     CENFEX |-> [lat |-> 130898, lon |-> -348696, station |-> "KSWO"]]

\* wind_mph = round(wind_kt * 1.15078, 1), on tenths.
KtToMph(kt10) == (kt10 * 115078 + 50000) \div 100000

TxtUnknown == <<"U","n","k","n","o","w","n">>
TxtUNKN == <<"U","N","K","N">>
TxtVFR == <<"V","F","R">>
TxtClear == <<"C","l","e","a","r">>
TxtLightRain == <<"L","i","g","h","t"," ","R","a","i","n">>
TxtRainFog == <<"R","a","i","n"," ","F","o","g">>
TxtEmpty == <<>>

(***************************************************************************)
(* External data: XML fields as tokens                                     *)
(***************************************************************************)
Absent == [k |-> "absent", v |-> 0, plus |-> FALSE]   \* element missing or empty
Bad == [k |-> "bad", v |-> 0, plus |-> FALSE]         \* text that is no number
NanTok == [k |-> "nan", v |-> 0, plus |-> FALSE]      \* the text "nan"
Num(n) == [k |-> "num", v |-> n, plus |-> FALSE]      \* a decimal number
NumPlus(n) == [k |-> "num", v |-> n, plus |-> TRUE]   \* a number followed by "+"

\* text.replace('+', '')
StripPlus(tok) == [tok EXCEPT !.plus = FALSE]
\* float(text) raises ValueError
FloatRaises(tok) == tok.k = "bad" \/ (tok.k = "num" /\ tok.plus)
\* float(text), in tenths
FloatOf(tok) == IF tok.k = "nan" THEN NaN ELSE F(tok.v)
\* int(text) raises ValueError
IntRaises(tok) == tok.k \in {"bad", "nan"} \/ (tok.k = "num" /\ tok.plus)

\* round(wind_kt * 1.15078, 1)
RoundMph(x) == IF x.nan THEN NaN ELSE F(KtToMph(x.v))

Layer(cover, base) == [sky_cover |-> cover, cloud_base_ft_agl |-> base]

(***************************************************************************)
(* src/app.py: adapters                                                    *)
(***************************************************************************)
\* lines 134-144 (get_metar) and 239-249 (get_taf)
WindOf(tok) ==
    IF tok.k = "absent" \/ FloatRaises(tok) THEN F(0) ELSE RoundMph(FloatOf(tok))

\* lines 146-156 and 251-261
VisibilityOf(tok) ==
    IF tok.k = "absent" \/ FloatRaises(StripPlus(tok)) THEN F(100)
    ELSE FloatOf(StripPlus(tok))

\* lines 158-171 and 263-276: the first BKN or OVC layer that has a base
RECURSIVE CloudBaseOf(_)
CloudBaseOf(sky) ==
    IF sky = <<>> THEN Unlimited
    ELSE IF Head(sky).sky_cover \in {"BKN", "OVC"}
            /\ Head(sky).cloud_base_ft_agl.k # "absent"
         THEN IF IntRaises(Head(sky).cloud_base_ft_agl) THEN Unlimited
              ELSE Head(sky).cloud_base_ft_agl.v
         ELSE CloudBaseOf(Tail(sky))

Observation(w, v, c, t) ==
    [wind_mph |-> w, visibility |-> v, cloud_base |-> c, condition |-> t]

\* get_metar, lines 105-199
get_metar(station_code, resp) ==
    IF station_code = None THEN None
    ELSE IF resp.kind # "ok" THEN None
    ELSE LET cond == IF resp.cat # None /\ Val(resp.cat) # TxtEmpty
                     THEN Val(resp.cat) ELSE TxtUNKN
         IN IF cond # TxtUNKN
            THEN Some(Observation(WindOf(resp.wind), VisibilityOf(resp.vis),
                                  CloudBaseOf(resp.sky), Some(cond)))
            ELSE None

\* get_taf, lines 202-300: the values of the first forecast element
get_taf(station_code, resp) ==
    IF station_code = None THEN None
    ELSE IF resp.kind # "ok" THEN None
    ELSE IF resp.forecasts = <<>> THEN None
    ELSE LET forecast == Head(resp.forecasts)
             cond == IF forecast.wx # None /\ Val(forecast.wx) # TxtEmpty
                     THEN Val(forecast.wx) ELSE TxtVFR
         IN Some(Observation(WindOf(forecast.wind), VisibilityOf(forecast.vis),
                             CloudBaseOf(forecast.sky), Some(cond)))

\* get_forecast, lines 302-311
get_forecast(resp) == IF resp.kind = "ok" THEN resp.periods ELSE <<>>

\* A wind description is a sequence of words; a number is a word of digits.
N(n) == [num |-> TRUE, n |-> n, w |-> ""]
W(w) == [num |-> FALSE, n |-> 0, w |-> w]
WindUnits == {"mph", "mi/h", "knots", "kt"}
\* re.search(r'(\d+)\s*(?:mph|mi/h|knots|kt)', ...): positions of a number
\* directly followed by a unit
UnitMatches(words) ==
    {i \in 1..(Len(words) - 1) :
        words[i].num /\ ~words[i + 1].num /\ words[i + 1].w \in WindUnits}
Min(S) == CHOOSE x \in S : \A y \in S : x <= y
\* parse_forecast_wind, lines 313-322 (wind_str None or missing reads as '')
parse_forecast_wind(wind_str) ==
    IF wind_str = None THEN F(0)
    ELSE LET words == Val(wind_str)
         IN IF UnitMatches(words) = {} THEN F(0)
            ELSE LET speed == words[Min(UnitMatches(words))].n * 10
                 IN IF \E i \in DOMAIN words : words[i].w \in {"knots", "kt"}
                    THEN F(KtToMph(speed)) ELSE F(speed)

\* cache_key = f"{lat:.2f},{lon:.2f}": 0.01 degree is 36 arcseconds
Round2(x) == IF x >= 0 THEN (x + 18) \div 36 ELSE -((18 - x) \div 36)
CacheKey(la, lo) == <<Round2(la), Round2(lo)>>

\* A variant that builds (and so caches) data whatever the status
GridData_any_status(resp) ==
    IF resp.kind = "ok"
    THEN Some([forecast_hourly |-> resp.forecastHourly, office |-> resp.office])
    ELSE Some([forecast_hourly |-> None, office |-> "Unknown"])

\* get_nws_grid, lines 54-85, the part after a cache miss
GridData(resp) ==
    IF resp.kind = "ok"
    THEN Some([forecast_hourly |-> resp.forecastHourly, office |-> resp.office])
    ELSE None

\* find_metar_stations, lines 87-103: the first airport or reporting station
RECURSIVE FirstStation(_)
FirstStation(stations) ==
    IF stations = <<>> THEN None
    ELSE IF Head(stations).type \in {"airport", "reporting_station"}
         THEN Head(stations).icao
         ELSE FirstStation(Tail(stations))
find_metar_stations(resp) ==
    IF resp.kind = "ok" THEN FirstStation(resp.results) ELSE None

\* get_sunrise_sunset, lines 324-338
get_sunrise_sunset(resp) ==
    IF resp.kind = "ok" /\ resp.status = "OK"
    THEN [sunrise |-> Some(resp.sunrise), sunset |-> Some(resp.sunset)]
    ELSE [sunrise |-> None, sunset |-> None]

\* A variant that lets an empty degrees field through as zero degrees
dms_to_decimal_empty_as_zero(deg, min_, sec, direction) ==
    IF FloatRaises(deg) \/ FloatRaises(min_) \/ FloatRaises(sec) THEN None
    ELSE LET decimal == deg.v * 3600 + min_.v * 60 + sec.v
         IN Some(IF direction \in {"S", "W"} THEN -decimal ELSE decimal)

\* dms_to_decimal, lines 42-52, in arcseconds
dms_to_decimal(deg, min_, sec, direction) ==
    IF deg.k = "absent" THEN None
    ELSE IF FloatRaises(deg) \/ FloatRaises(min_) \/ FloatRaises(sec) THEN None
    ELSE LET decimal == deg.v * 3600 + min_.v * 60 + sec.v
         IN Some(IF direction \in {"S", "W"} THEN -decimal ELSE decimal)

(***************************************************************************)
(* Inputs: the forms a client posts and the answers of the services        *)
(***************************************************************************)
MaxPeriods == 2     \* longest hourly series a forecast answer holds
MaxLayers == 2      \* most sky_condition layers of a METAR or TAF answer

FlightTime == 6600 * 60  \* the flight time every form asks for, on a whole minute
Deltas == {-3600, TwoHours, TwoHours + 1, ThirtyHours, ThirtyHours + 1}

NoDms == [deg |-> Absent, min |-> Absent, sec |-> Absent, dir |-> "N"]
Dms(d, m, s_, h) == [deg |-> Num(d), min |-> Num(m), sec |-> Num(s_), dir |-> h]
Form(site, fmt, la, lo, ladms, lodms, when) ==
    [site |-> site, coordFormat |-> fmt, lat_decimal |-> la, lon_decimal |-> lo,
     lat_dms |-> ladms, lon_dms |-> lodms, when |-> when]
InitialForm == Form("UAFS", "decimal", Absent, Absent, NoDms, NoDms, None)
Forms ==
    { Form("UAFS", "decimal", Absent, Absent, NoDms, NoDms, Some(FlightTime)),
      Form("UAFS", "decimal", Absent, Absent, NoDms, NoDms, None),
      Form("Custom", "decimal", Num(130190), Num(-348610), NoDms, NoDms, Some(FlightTime)),
      Form("Custom", "decimal", Num(324001), Num(-348600), NoDms, NoDms, Some(FlightTime)),
      Form("Custom", "decimal", Num(130190), NanTok, NoDms, NoDms, Some(FlightTime)),
      Form("Custom", "decimal", Bad, Num(-348600), NoDms, NoDms, Some(FlightTime)),
      Form("Custom", "dms", Absent, Absent, Dms(36, 9, 50, "N"), Dms(96, 50, 10, "W"),
           Some(FlightTime)),
      Form("Custom", "dms", Absent, Absent, Dms(36, 9, 50, "N"),
           [deg |-> Num(96), min |-> Num(50), sec |-> Absent, dir |-> "W"],
           Some(FlightTime)),
      Form("Custom", "dms", Absent, Absent, NoDms, Dms(96, 50, 0, "W"), Some(FlightTime)),
      Form("Custom", "dms", Absent, Absent,
           [deg |-> Num(36), min |-> Bad, sec |-> Num(50), dir |-> "N"],
           Dms(96, 50, 0, "W"), Some(FlightTime)),
      Form("Custom", "decimal", Num(130190), Absent, NoDms, NoDms, Some(FlightTime)),
      Form("Custom", "decimal", Num(130190), Num(-648001), NoDms, NoDms, Some(FlightTime)),
      Form("Custom", "dms", Absent, Absent, Dms(36, 9, 50, "N"), Dms(181, 0, 0, "W"),
           Some(FlightTime)),
      Form("Nowhere", "decimal", Absent, Absent, NoDms, NoDms, Some(FlightTime)) }

Failures == {[kind |-> "exception"], [kind |-> "http_error"]}
\* Where a handler sends no request, no answer plays a part: one value stands
\* for all of them
Unasked == [kind |-> "exception"]

GridResponses ==
    Failures \cup
    {[kind |-> "ok", forecastHourly |-> u, office |-> "OUN"] : u \in {None, Some("hourly")}}

Station(type, icao) == [type |-> type, icao |-> icao]
StationResponses ==
    Failures \cup
    {[kind |-> "ok", results |-> r] :
        r \in { <<>>, <<Station("heliport", Some("OK01")), Station("airport", Some("KOKC"))>>,
                <<Station("airport", None)>> }}

WindToks == {Absent, Bad, NanTok, Num(100), Num(136), Num(137)}
VisToks == {Absent, Bad, NanTok, Num(29), NumPlus(30), NumPlus(100)}
LayerSet ==
    {Layer("FEW", Num(300)), Layer("BKN", Num(499)), Layer("OVC", Num(500)),
     Layer("BKN", Absent), Layer("OVC", Bad)}
Skies == UNION {[1..n -> LayerSet] : n \in 0..MaxLayers}
Texts == {None, Some(TxtEmpty), Some(TxtVFR), Some(TxtLightRain), Some(TxtRainFog)}

\* Answers that differ from a fair-weather report in one field, and one that
\* is bad in every field.
Report(w, v, sky, t) == [wind |-> w, vis |-> v, sky |-> sky, text |-> t]
FairReport == Report(Num(100), NumPlus(100), <<>>, Some(TxtVFR))
WorstReport == Report(Num(137), Num(29), <<Layer("BKN", Num(499))>>, Some(TxtRainFog))
Reports ==
    {[FairReport EXCEPT !.wind = w] : w \in WindToks}
    \cup {[FairReport EXCEPT !.vis = v] : v \in VisToks}
    \cup {[FairReport EXCEPT !.sky = k] : k \in Skies}
    \cup {[FairReport EXCEPT !.text = t] : t \in Texts}
    \cup {WorstReport}

MetarResponses ==
    Failures \cup {[kind |-> "parse_error"], [kind |-> "no_metar"]}
    \cup {[kind |-> "ok", wind |-> r.wind, vis |-> r.vis, sky |-> r.sky, cat |-> r.text] :
            r \in Reports}

Segment(from, to, r) ==
    [fcst_time_from |-> from, fcst_time_to |-> to,
     wind |-> r.wind, vis |-> r.vis, sky |-> r.sky, wx |-> r.text]
TafResponses ==
    Failures \cup {[kind |-> "parse_error"], [kind |-> "no_taf"]}
    \cup {[kind |-> "ok", forecasts |-> <<>>]}
    \cup {[kind |-> "ok", forecasts |-> <<Segment(FlightTime - 3600, FlightTime + 3600, r)>>] :
            r \in Reports}
    \cup {[kind |-> "ok",
           forecasts |-> <<Segment(FlightTime - 7200, FlightTime - 3600, WorstReport),
                           Segment(FlightTime - 3600, FlightTime + 3600, FairReport)>>]}

\* A JSON member: missing, null, or a text
Missing == [k |-> "missing", text |-> <<>>]
Null == [k |-> "null", text |-> <<>>]
Text(t) == [k |-> "text", text |-> t]
Period(start, wind, short) ==
    [startTime |-> start, windSpeed |-> wind, shortForecast |-> short]
PeriodSet ==
    { Period(Some(FlightTime - 1800), Some(<<N(10), W("mph")>>), Text(TxtClear)),
      Period(Some(FlightTime + 1800), Some(<<N(5), W("to"), N(20), W("mph")>>),
             Text(TxtLightRain)),
      Period(Some(FlightTime + 600), Some(<<N(14), W("kt")>>), Missing),
      Period(Some(FlightTime + 900), None, Null),
      Period(None, Some(<<W("calm")>>), Text(TxtClear)) }
ForecastResponses ==
    Failures \cup
    {[kind |-> "ok", periods |-> ps] :
        ps \in UNION {[1..n -> PeriodSet] : n \in 0..MaxPeriods}}

SunTimes ==
    { <<FlightTime + 1800, FlightTime + 40000>>, <<FlightTime + 59, FlightTime + 40000>>,
      <<FlightTime, FlightTime + 40000>>, <<FlightTime - 3600, FlightTime + 3725>>,
      <<FlightTime - 40000, FlightTime>>, <<FlightTime - 40000, FlightTime - 61>> }
SunResponses ==
    Failures
    \cup {[kind |-> "ok", status |-> "INVALID_REQUEST", sunrise |-> 0, sunset |-> 0]}
    \cup {[kind |-> "ok", status |-> "OK", sunrise |-> t[1], sunset |-> t[2]] : t \in SunTimes}

(***************************************************************************)
(* src/app.py: index()                                                     *)
(***************************************************************************)
\* One entry of the request's call history: the function and whether it
\* returned data
Call(fn, ok) == [fn |-> fn, ok |-> ok]

\* Variant: the adapters' visibility default taken for the cascade's
Defaults_best_case == Observation(F(0), F(100), Unlimited, Some(TxtUnknown))

\* Variant: a default visibility that just meets the minimum
Defaults_at_minimum == Observation(F(0), F(MIN_VISIBILITY_SM), Unlimited, Some(TxtUnknown))

\* lines 416-421
Defaults == Observation(F(0), F(0), Unlimited, Some(TxtUnknown))

Weather == <<source, cloud_base, visibility, wind_mph, condition>>

\* lines 342-344, 386-392 and 416-421: the locals of a request that resolved
\* coordinates la, lo and flight time sel, or ended at once with error err
Begin(f, la, lo, sel, dl, err, next) ==
    /\ form' = f
    /\ lat' = la /\ lon' = lo /\ selected_time' = sel /\ delta' = dl
    /\ nws_data' = None /\ metar_station' = None
    /\ source' = "unavailable"
    /\ cloud_base' = Defaults.cloud_base /\ visibility' = Defaults.visibility
    /\ wind_mph' = Defaults.wind_mph /\ condition' = Defaults.condition
    /\ sunrise' = None /\ sunset' = None
    /\ result' = None /\ error' = err /\ calls' = <<>> /\ net' = <<>>
    /\ answer' = None
    /\ pc' = next

\* float(request.form.get(...).strip()) raises ValueError
DecimalRaises(tok) == tok.k \in {"absent", "bad"} \/ FloatRaises(tok)

\* A "nan" field makes dms_to_decimal return NaN, which fails both range tests
DmsIsNan(dms) == "nan" \in {dms.deg.k, dms.min.k, dms.sec.k}

\* lines 353-384: the coordinates, or how the request ends
Coordinates(f) ==
    IF f.site \in DOMAIN FLIGHT_SITES
    THEN [kind |-> "ok", lat |-> FLIGHT_SITES[f.site].lat, lon |-> FLIGHT_SITES[f.site].lon]
    ELSE IF f.site # "Custom" THEN [kind |-> "bad_site", lat |-> 0, lon |-> 0]
    ELSE IF f.coordFormat = "decimal"
    THEN IF DecimalRaises(f.lat_decimal) \/ DecimalRaises(f.lon_decimal)
         THEN [kind |-> "exception", lat |-> 0, lon |-> 0]
         ELSE IF f.lat_decimal.k = "nan" \/ f.lon_decimal.k = "nan"
                 \/ ~(-90 * 3600 <= f.lat_decimal.v /\ f.lat_decimal.v <= 90 * 3600)
                 \/ ~(-180 * 3600 <= f.lon_decimal.v /\ f.lon_decimal.v <= 180 * 3600)
              THEN [kind |-> "invalid", lat |-> 0, lon |-> 0]
              ELSE [kind |-> "ok", lat |-> f.lat_decimal.v, lon |-> f.lon_decimal.v]
    ELSE LET la == dms_to_decimal(f.lat_dms.deg, f.lat_dms.min, f.lat_dms.sec, f.lat_dms.dir)
             lo == dms_to_decimal(f.lon_dms.deg, f.lon_dms.min, f.lon_dms.sec, f.lon_dms.dir)
         IN IF la = None \/ lo = None
               \/ DmsIsNan(f.lat_dms) \/ DmsIsNan(f.lon_dms)
               \/ ~(-90 * 3600 <= Val(la) /\ Val(la) <= 90 * 3600)
               \/ ~(-180 * 3600 <= Val(lo) /\ Val(lo) <= 180 * 3600)
            THEN [kind |-> "invalid", lat |-> 0, lon |-> 0]
            ELSE [kind |-> "ok", lat |-> Val(la), lon |-> Val(lo)]

\* lines 346-397: a POST arrives; coordinates and flight time are parsed
Post(f, d) ==
    /\ pc = "idle"
    /\ variant' = "app"
    /\ LET c == Coordinates(f)
       IN CASE c.kind = "bad_site" ->
                 Begin(f, 0, 0, 0, 0, Some("Invalid site selection"), "done")
            [] c.kind = "invalid" ->
                 Begin(f, 0, 0, 0, 0, Some("Invalid coordinates"), "done")
            [] c.kind = "exception" ->
                 Begin(f, 0, 0, 0, 0, Some("exception"), "done")
            [] c.kind = "ok" /\ f.when = None ->
                 Begin(f, c.lat, c.lon, 0, 0, Some("exception"), "done")
            [] OTHER ->
                 Begin(f, c.lat, c.lon, Val(f.when), d, None, "grid")
    /\ UNCHANGED nws_cache

\* A failure anywhere inside the try block, lines 541-543
Raise ==
    /\ error' = Some("exception")
    /\ result' = None
    /\ pc' = "done"

\* get_nws_grid, lines 54-85, called at line 400
NwsGrid(resp) ==
    /\ pc = "grid"
    /\ LET cache_key == CacheKey(lat, lon)
       IN IF cache_key \in DOMAIN nws_cache
          THEN /\ resp = Unasked
               /\ nws_data' = nws_cache[cache_key]
               /\ calls' = Append(calls, Call("get_nws_grid", TRUE))
               /\ UNCHANGED <<nws_cache, net, answer>>
          ELSE /\ net' = Append(net, "points")
               /\ answer' = Some(resp)
               /\ calls' = Append(calls, Call("get_nws_grid", GridData(resp) # None))
               /\ nws_data' = GridData(resp)
               /\ nws_cache' =
                    IF GridData(resp) = None THEN nws_cache
                    ELSE [k \in DOMAIN nws_cache \cup {cache_key} |->
                            IF k = cache_key THEN GridData(resp) ELSE nws_cache[k]]
    /\ pc' = "station"
    /\ UNCHANGED <<variant, form, selected_time, delta, lat, lon, metar_station,
                   Weather, sunrise, sunset, result, error>>

\* lines 402-409: the preset station, or the nearest one found
FindStation(resp) ==
    /\ pc = "station"
    /\ IF form.site \in DOMAIN SITE_METAR_MAP
       THEN /\ resp = Unasked
            /\ metar_station' = Some(SITE_METAR_MAP[form.site])
            /\ UNCHANGED <<calls, net, answer>>
       ELSE /\ metar_station' = find_metar_stations(resp)
            /\ calls' = Append(calls, Call("find_metar_stations",
                                            find_metar_stations(resp) # None))
            /\ net' = Append(net, "station_search")
            /\ answer' = Some(resp)
    /\ pc' = "metar"
    /\ UNCHANGED <<variant, form, selected_time, delta, lat, lon, nws_data,
                   Weather, sunrise, sunset, result, error, nws_cache>>

\* Use(obs, src): the four assignments of a successful tier
Use(obs, src) ==
    /\ cloud_base' = obs.cloud_base
    /\ visibility' = obs.visibility
    /\ wind_mph' = obs.wind_mph
    /\ condition' = obs.condition
    /\ source' = src

\* Variants of the two windows, as a slip in the code would leave them
metar_valid_strictly == delta < TwoHours
taf_valid_strictly == delta < ThirtyHours
taf_valid_always == TRUE
taf_valid_for_future_only == TwoHours < delta /\ delta <= ThirtyHours

\* lines 427 and 447
metar_valid_for_future == delta <= TwoHours
taf_valid_for_future == delta <= ThirtyHours

\* lines 426-443: tier 1
TryMetar(resp) ==
    /\ pc = "metar"
    /\ IF metar_station # None /\ metar_valid_for_future
       THEN /\ calls' = Append(calls, Call("get_metar", get_metar(metar_station, resp) # None))
            /\ net' = Append(net, "metar")
            /\ answer' = Some(resp)
            /\ LET metar_data == get_metar(metar_station, resp)
               IN IF metar_data # None THEN Use(Val(metar_data), "metar")
                  ELSE UNCHANGED Weather
       ELSE resp = Unasked /\ UNCHANGED <<calls, net, answer, Weather>>
    /\ pc' = "taf"
    /\ UNCHANGED <<variant, form, selected_time, delta, lat, lon, nws_data,
                   metar_station, sunrise, sunset, result, error, nws_cache>>

\* lines 445-465: tier 2 (taf_station is metar_station, line 422)
TryTaf(resp) ==
    /\ pc = "taf"
    /\ IF source = "unavailable" /\ metar_station # None /\ taf_valid_for_future
       THEN /\ calls' = Append(calls, Call("get_taf", get_taf(metar_station, resp) # None))
            /\ net' = Append(net, "taf")
            /\ answer' = Some(resp)
            /\ LET taf_data == get_taf(metar_station, resp)
               IN IF taf_data # None THEN Use(Val(taf_data), "taf")
                  ELSE UNCHANGED Weather
       ELSE resp = Unasked /\ UNCHANGED <<calls, net, answer, Weather>>
    /\ pc' = "nws"
    /\ UNCHANGED <<variant, form, selected_time, delta, lat, lon, nws_data,
                   metar_station, sunrise, sunset, result, error, nws_cache>>

\* A variant that compares signed differences: the earliest period wins
Closest_signed(periods, sel) ==
    LET key(i) == Val(periods[i].startTime) - sel
    IN periods[CHOOSE i \in DOMAIN periods : \A j \in DOMAIN periods : key(i) <= key(j)]

\* min(periods, key=lambda p: abs(isoparse(p["startTime"]) - selected_time)):
\* the first period among those nearest to the flight time
Closest(periods, sel) ==
    LET key(i) == Abs(Val(periods[i].startTime) - sel)
    IN periods[CHOOSE i \in DOMAIN periods :
                 /\ \A j \in DOMAIN periods : key(i) <= key(j)
                 /\ \A j \in 1..(i - 1) : key(j) > key(i)]

\* closest.get("shortForecast", "Unknown")
ShortForecast(p) ==
    CASE p.shortForecast.k = "missing" -> Some(TxtUnknown)
      [] p.shortForecast.k = "null" -> None
      [] OTHER -> Some(p.shortForecast.text)

\* lines 467-484: tier 3
TryForecast(resp) ==
    /\ pc = "nws"
    /\ IF source = "unavailable" /\ nws_data # None
          /\ Val(nws_data).forecast_hourly # None
       THEN /\ calls' = Append(calls, Call("get_forecast", get_forecast(resp) # <<>>))
            /\ net' = Append(net, "forecast")
            /\ answer' = Some(resp)
            /\ LET periods == get_forecast(resp)
               IN IF periods = <<>>
                  THEN /\ pc' = "sun"
                       /\ UNCHANGED <<Weather, result, error>>
                  ELSE IF \E i \in DOMAIN periods : periods[i].startTime = None
                  THEN Raise /\ UNCHANGED Weather
                  ELSE /\ Use(Observation(
                                 parse_forecast_wind(Closest(periods, selected_time).windSpeed),
                                 F(100), Unlimited,
                                 ShortForecast(Closest(periods, selected_time))),
                              "forecast")
                       /\ pc' = "sun"
                       /\ UNCHANGED <<result, error>>
       ELSE /\ resp = Unasked
            /\ pc' = "sun"
            /\ UNCHANGED <<calls, net, answer, Weather, result, error>>
    /\ UNCHANGED <<variant, form, selected_time, delta, lat, lon, nws_data,
                   metar_station, sunrise, sunset, nws_cache>>

\* line 487
SunriseSunset(resp) ==
    /\ pc = "sun"
    /\ calls' = Append(calls, Call("get_sunrise_sunset",
                                   get_sunrise_sunset(resp).sunrise # None))
    /\ net' = Append(net, "sunrise-sunset")
    /\ answer' = Some(resp)
    /\ sunrise' = get_sunrise_sunset(resp).sunrise
    /\ sunset' = get_sunrise_sunset(resp).sunset
    /\ pc' = IF variant = "app" THEN "evaluate" ELSE "w_evaluate"
    /\ UNCHANGED <<variant, form, selected_time, delta, lat, lon, nws_data,
                   metar_station, Weather, result, error, nws_cache>>

\* any(term in condition.lower() for term in BAD_CONDITIONS)
Adverse(text) ==
    \E i \in DOMAIN BAD_CONDITIONS : Contains(Lower(text), BAD_CONDITIONS[i])

Reason(crit, value) == [crit |-> crit, value |-> value]

\* Variant: an unknown daylight window counted as a failure
DaylightReasons_fail_safe(sel, rise, set) ==
    IF rise # None /\ set # None
    THEN IF sel < Val(rise)
         THEN <<Reason("before sunrise", (Val(rise) - sel) \div 60)>>
         ELSE IF sel > Val(set)
         THEN <<Reason("after sunset", (sel - Val(set)) \div 60)>>
         ELSE <<>>
    ELSE <<Reason("daylight unknown", 0)>>

\* lines 493-504: the daylight reason, if any
DaylightReasons(sel, rise, set) ==
    IF rise # None /\ set # None
    THEN IF sel < Val(rise)
         THEN <<Reason("before sunrise", (Val(rise) - sel) \div 60)>>
         ELSE IF sel > Val(set)
         THEN <<Reason("after sunset", (sel - Val(set)) \div 60)>>
         ELSE <<>>
    ELSE <<>>

\* lines 500-504: remaining.seconds leaves whole days out
FlightTimeRemaining(sel, rise, set) ==
    IF rise # None /\ set # None /\ ~(sel < Val(rise)) /\ ~(sel > Val(set))
    THEN LET seconds == (Val(set) - sel) % 86400
         IN Some([hours |-> seconds \div 3600, minutes |-> (seconds % 3600) \div 60])
    ELSE None

\* Variant: one reason for every hazard word the condition holds
WeatherReasons_per_term(wind, vis, cloud, text) ==
    (IF FGt(wind, MAX_WIND_MPH) THEN <<Reason("wind", wind.v)>> ELSE <<>>)
    \o (IF FLt(vis, MIN_VISIBILITY_SM) THEN <<Reason("visibility", vis.v)>> ELSE <<>>)
    \o (IF cloud < MIN_CLOUD_BASE_FT THEN <<Reason("cloud base", cloud)>> ELSE <<>>)
    \o [i \in 1..Cardinality({j \in DOMAIN BAD_CONDITIONS :
                                Contains(Lower(text), BAD_CONDITIONS[j])})
          |-> Reason("adverse conditions", 0)]

\* lines 506-513: the weather reasons, in the order the code appends them
WeatherReasons(wind, vis, cloud, text) ==
    (IF FGt(wind, MAX_WIND_MPH) THEN <<Reason("wind", wind.v)>> ELSE <<>>)
    \o (IF FLt(vis, MIN_VISIBILITY_SM) THEN <<Reason("visibility", vis.v)>> ELSE <<>>)
    \o (IF cloud < MIN_CLOUD_BASE_FT THEN <<Reason("cloud base", cloud)>> ELSE <<>>)
    \o (IF Adverse(text) THEN <<Reason("adverse conditions", 0)>> ELSE <<>>)

\* line 525
SourceLabel(src) ==
    CASE src = "forecast" -> "NWS"
      [] src = "metar" -> "METAR"
      [] src = "taf" -> "TAF"
      [] src = "unavailable" -> "UNAVAILABLE"

\* Variant: a single reason tolerated
GoNoGo_lenient(failed_reasons) == IF Len(failed_reasons) <= 1 THEN "Go" ELSE "No-Go"

\* line 530
GoNoGo(failed_reasons) == IF failed_reasons = <<>> THEN "Go" ELSE "No-Go"

\* lines 515-539
Result(failed_reasons, flight_time_remaining) ==
    [cloud_base |-> cloud_base,
     visibility |-> visibility,
     wind_mph |-> wind_mph,
     condition |-> Val(condition),
     source |-> SourceLabel(source),
     wind_pass |-> FLe(wind_mph, MAX_WIND_MPH),
     visibility_pass |-> FGe(visibility, MIN_VISIBILITY_SM),
     cloud_pass |-> cloud_base >= MIN_CLOUD_BASE_FT,
     condition_pass |-> ~Adverse(Val(condition)),
     go_nogo |-> GoNoGo(failed_reasons),
     failed_reasons |-> failed_reasons,
     sunrise |-> sunrise,
     sunset |-> sunset,
     flight_time_remaining |-> flight_time_remaining,
     station_used |-> metar_station,
     taf_used |-> IF source = "taf" THEN metar_station ELSE None,
     forecast_url_used |-> IF nws_data # None THEN Val(nws_data).forecast_hourly ELSE None]

\* lines 489-539; condition.lower() raises on a null short forecast
Evaluate ==
    /\ pc = "evaluate"
    /\ IF condition = None
       THEN Raise
       ELSE /\ result' = Some(Result(
                    DaylightReasons(selected_time, sunrise, sunset)
                      \o WeatherReasons(wind_mph, visibility, cloud_base, Val(condition)),
                    FlightTimeRemaining(selected_time, sunrise, sunset)))
            /\ pc' = "done"
            /\ UNCHANGED error
    /\ UNCHANGED <<variant, form, selected_time, delta, lat, lon, nws_data,
                   metar_station, Weather, sunrise, sunset, calls, net, answer,
                   nws_cache>>

(***************************************************************************)
(* src/Working/app.py                                                      *)
(***************************************************************************)
\* The forms posted to the Working variant: it reads site, date and time only.
WForms == {f \in Forms : f.coordFormat = "decimal" /\ f.lat_decimal = Absent}

\* int(text) of a field held in tenths raises unless the text is a whole number
WholeRaises(tok) == IntRaises(tok) \/ tok.v % 10 # 0

\* Working lines 60-63 raise when the first BKN or OVC layer with a base is no integer
RECURSIVE WCloudRaises(_)
WCloudRaises(sky) ==
    IF sky = <<>> THEN FALSE
    ELSE IF Head(sky).sky_cover \in {"BKN", "OVC"}
            /\ Head(sky).cloud_base_ft_agl.k # "absent"
         THEN IntRaises(Head(sky).cloud_base_ft_agl)
         ELSE WCloudRaises(Tail(sky))

\* The text of an element: None when the element is empty
ElementText(t) == IF Val(t) = TxtEmpty THEN None ELSE t

\* Working lines 52-67 raise, and line 68 catches it
WMetarRaises(resp) ==
    \/ resp.kind # "ok"
    \/ (resp.wind.k # "absent" /\ WholeRaises(resp.wind))
    \/ (resp.vis.k # "absent" /\ FloatRaises(StripPlus(resp.vis)))
    \/ WCloudRaises(resp.sky)

\* get_metar_conditions, Working lines 49-70: always an observation
get_metar_conditions(resp) ==
    IF WMetarRaises(resp)
    THEN Observation(F(0), F(0), Unlimited, Some(TxtUnknown))
    ELSE Observation(
            IF resp.wind.k = "absent" THEN F(0) ELSE F(KtToMph(resp.wind.v)),
            IF resp.vis.k = "absent" THEN F(0) ELSE FloatOf(StripPlus(resp.vis)),
            CloudBaseOf(resp.sky),
            IF resp.cat = None THEN Some(TxtUnknown) ELSE ElementText(resp.cat))

\* Working lines 105-109 and 163-164: the first number of the cloud string,
\* which lists every layer that has a base, whatever its cover
RECURSIVE WFirstBase(_)
WFirstBase(sky) ==
    IF sky = <<>> THEN Unlimited
    ELSE IF Head(sky).cloud_base_ft_agl.k = "num" THEN Head(sky).cloud_base_ft_agl.v
         ELSE WFirstBase(Tail(sky))

\* Working lines 90-122 raise on a segment
WSegmentRaises(seg) ==
    \/ (seg.wind.k # "absent" /\ WholeRaises(seg.wind))
    \/ (seg.vis.k # "absent" /\ FloatRaises(StripPlus(seg.vis)))

\* Working lines 113-122 with 160-166: a segment as index() reads it back
WSegment(seg) ==
    Observation(
        IF seg.wind.k = "absent" THEN F(0) ELSE F(KtToMph(seg.wind.v)),
        IF seg.vis.k = "absent" THEN F(100) ELSE FloatOf(StripPlus(seg.vis)),
        WFirstBase(seg.sky),
        IF seg.wx = None THEN Some(TxtEmpty) ELSE ElementText(seg.wx))

\* get_taf_forecast, Working lines 79-128: the first segment whose window
\* holds the flight time
get_taf_forecast(resp, sel) ==
    IF resp.kind # "ok" THEN None
    ELSE IF \E i \in DOMAIN resp.forecasts : WSegmentRaises(resp.forecasts[i]) THEN None
    ELSE LET hits == {i \in DOMAIN resp.forecasts :
                        /\ resp.forecasts[i].fcst_time_from <= sel
                        /\ sel <= resp.forecasts[i].fcst_time_to}
         IN IF hits = {} THEN None ELSE Some(WSegment(resp.forecasts[Min(hits)]))

\* An exception nothing catches: the request ends without a result
WCrash ==
    /\ error' = Some("unhandled")
    /\ result' = None
    /\ pc' = "done"

\* Working lines 136-151
WPost(f, d) ==
    /\ pc = "idle"
    /\ variant' = "Working"
    /\ IF f.when = None \/ f.site \notin DOMAIN W_FLIGHT_SITES
       THEN Begin(f, 0, 0, 0, 0, Some("unhandled"), "done")
       ELSE /\ Begin(f, W_FLIGHT_SITES[f.site].lat, W_FLIGHT_SITES[f.site].lon,
                     Val(f.when), d, None, "w_fetch")
    /\ UNCHANGED nws_cache

\* Working lines 153-168: the current observation, or the TAF
WFetch(resp) ==
    /\ pc = "w_fetch"
    /\ metar_station' = Some(W_FLIGHT_SITES[form.site].station)
    /\ answer' = Some(resp)
    /\ IF delta <= TwoHours
       THEN /\ resp \in MetarResponses
            /\ calls' = Append(calls, Call("get_metar_conditions", ~WMetarRaises(resp)))
            /\ net' = Append(net, "metar")
            /\ Use(get_metar_conditions(resp), "metar")
            /\ pc' = "sun"
       ELSE /\ resp \in TafResponses
            /\ calls' = Append(calls, Call("get_taf_forecast",
                                            get_taf_forecast(resp, selected_time) # None))
            /\ net' = Append(net, "taf")
            /\ LET taf_summary == get_taf_forecast(resp, selected_time)
               IN IF taf_summary # None
                  THEN Use(Val(taf_summary), "taf") /\ pc' = "sun"
                  ELSE UNCHANGED Weather /\ pc' = "w_forecast"
    /\ UNCHANGED <<variant, form, selected_time, delta, lat, lon, nws_data,
                   sunrise, sunset, result, error, nws_cache>>

\* re.search(r"\d+", closest["windSpeed"]): the first number of the text
WFirstNumber(words) ==
    LET nums == {i \in DOMAIN words : words[i].num}
    IN IF nums = {} THEN F(0) ELSE F(words[Min(nums)].n * 10)

\* Working lines 169-188
WTryForecast(resp) ==
    /\ pc = "w_forecast"
    /\ calls' = Append(calls, Call("get_forecast", get_forecast(resp) # <<>>))
    /\ net' = Append(net, "forecast")
    /\ answer' = Some(resp)
    /\ LET periods == get_forecast(resp)
       IN IF periods = <<>>
          THEN /\ Use(Observation(F(0), F(0), Unlimited, Some(TxtUnknown)), "none")
               /\ pc' = "sun"
               /\ UNCHANGED <<result, error>>
          ELSE IF \/ \E i \in DOMAIN periods : periods[i].startTime = None
                  \/ Closest(periods, selected_time).windSpeed = None
                  \/ Closest(periods, selected_time).shortForecast.k = "missing"
          THEN WCrash /\ UNCHANGED Weather
          ELSE /\ Use(Observation(
                         WFirstNumber(Val(Closest(periods, selected_time).windSpeed)),
                         F(100), Unlimited,
                         ShortForecast(Closest(periods, selected_time))),
                      "forecast")
               /\ pc' = "sun"
               /\ UNCHANGED <<result, error>>
    /\ UNCHANGED <<variant, form, selected_time, delta, lat, lon, nws_data,
                   metar_station, sunrise, sunset, nws_cache>>

\* Working lines 195-206: the third branch leaves the sunset instant out
WFlightTimeRemaining(sel, rise, set) ==
    IF rise # None /\ set # None /\ ~(sel < Val(rise)) /\ ~(sel > Val(set))
       /\ Val(rise) <= sel /\ sel < Val(set)
    THEN LET seconds == Val(set) - sel
         IN Some([hours |-> seconds \div 3600, minutes |-> (seconds % 3600) \div 60])
    ELSE None

\* Working lines 217-239
WResult(failed_reasons, flight_time_remaining) ==
    [cloud_base |-> cloud_base,
     visibility |-> visibility,
     forecast |-> Val(condition),
     source |-> source,
     wind_pass |-> FLe(wind_mph, MAX_WIND_MPH),
     visibility_pass |-> FGe(visibility, MIN_VISIBILITY_SM),
     cloud_pass |-> cloud_base >= MIN_CLOUD_BASE_FT,
     condition_pass |-> ~Adverse(Val(condition)),
     go_nogo |-> GoNoGo(failed_reasons),
     failed_reasons |-> failed_reasons,
     sunrise |-> sunrise,
     sunset |-> sunset,
     flight_time_remaining |-> flight_time_remaining]

\* Working lines 190-239; condition.lower() raises on a missing text
WEvaluate ==
    /\ pc = "w_evaluate"
    /\ IF condition = None
       THEN WCrash
       ELSE /\ result' = Some(WResult(
                    DaylightReasons(selected_time, sunrise, sunset)
                      \o WeatherReasons(wind_mph, visibility, cloud_base, Val(condition)),
                    WFlightTimeRemaining(selected_time, sunrise, sunset)))
            /\ pc' = "done"
            /\ UNCHANGED error
    /\ UNCHANGED <<variant, form, selected_time, delta, lat, lon, nws_data,
                   metar_station, Weather, sunrise, sunset, calls, net, answer,
                   nws_cache>>

\* line 545: the response is rendered and the request's locals are gone
Respond ==
    /\ pc = "done"
    /\ Begin(InitialForm, 0, 0, 0, 0, None, "idle")
    /\ variant' = "app"
    /\ UNCHANGED nws_cache

Init ==
    /\ pc = "idle" /\ variant = "app" /\ form = InitialForm
    /\ selected_time = 0 /\ delta = 0 /\ lat = 0 /\ lon = 0
    /\ nws_data = None /\ metar_station = None
    /\ source = "unavailable"
    /\ cloud_base = Defaults.cloud_base /\ visibility = Defaults.visibility
    /\ wind_mph = Defaults.wind_mph /\ condition = Defaults.condition
    /\ sunrise = None /\ sunset = None
    /\ result = None /\ error = None /\ calls = <<>> /\ net = <<>>
    /\ answer = None
    /\ nws_cache = <<>>

Next ==
    \/ pc = "idle" /\ \E f \in Forms, d \in Deltas : Post(f, d)
    \/ pc = "grid" /\ \E resp \in GridResponses : NwsGrid(resp)
    \/ pc = "station" /\ \E resp \in StationResponses : FindStation(resp)
    \/ pc = "metar" /\ \E resp \in MetarResponses : TryMetar(resp)
    \/ pc = "taf" /\ \E resp \in TafResponses : TryTaf(resp)
    \/ pc = "nws" /\ \E resp \in ForecastResponses : TryForecast(resp)
    \/ pc = "sun" /\ \E resp \in SunResponses : SunriseSunset(resp)
    \/ Evaluate
    \/ pc = "idle" /\ \E f \in WForms, d \in Deltas : WPost(f, d)
    \/ pc = "w_fetch" /\ \E resp \in MetarResponses \cup TafResponses : WFetch(resp)
    \/ pc = "w_forecast" /\ \E resp \in ForecastResponses : WTryForecast(resp)
    \/ WEvaluate
    \/ Respond

Spec == Init /\ [][Next]_vars

(***************************************************************************)
(* Properties                                                              *)
(***************************************************************************)
IsTier(c) == c.fn \in {"get_metar", "get_taf", "get_forecast"}
\* The weather adapters this request has invoked, in order
TierCalls == SelectSeq(calls, IsTier)
Invoked(fn) == \E i \in DOMAIN calls : calls[i].fn = fn
Failed(fn) == \E i \in DOMAIN calls : calls[i].fn = fn /\ ~calls[i].ok
Succeeded(fn) == \E i \in DOMAIN calls : calls[i].fn = fn /\ calls[i].ok
Times(fn) == Cardinality({i \in DOMAIN calls : calls[i].fn = fn})
\* The request of src/app.py is past its tier 1 step
PastMetar == variant = "app" /\ pc \in {"taf", "nws", "sun", "evaluate", "done"}
\* The request of src/app.py is past its whole cascade
PastCascade == variant = "app" /\ pc \in {"sun", "evaluate"}
Res == Val(result)

\* C1 as stated: whenever delta <= 2 h, the first weather adapter a request
\* invokes is get_metar, and after a successful get_metar neither get_taf nor
\* get_forecast is invoked.
C1_MetarAlwaysFirst ==
    (PastMetar /\ delta <= TwoHours) =>
        /\ (TierCalls # <<>> => TierCalls[1].fn = "get_metar")
        /\ (Succeeded("get_metar") => ~Invoked("get_taf") /\ ~Invoked("get_forecast"))

\* C1, amended: whenever delta <= 2 h and a METAR station was resolved, the
\* first weather adapter the request invokes is get_metar; and after a
\* successful get_metar neither get_taf nor get_forecast is invoked.
C1_MetarFirstWithStation ==
    (PastMetar /\ delta <= TwoHours) =>
        /\ (metar_station # None => TierCalls # <<>> /\ TierCalls[1].fn = "get_metar")
        /\ (Succeeded("get_metar") => ~Invoked("get_taf") /\ ~Invoked("get_forecast"))

C1_Witness ==
    /\ variant = "app" /\ pc = "done" /\ result # None
    /\ delta = TwoHours
    /\ TierCalls = <<Call("get_metar", TRUE)>>
    /\ Res.source = "METAR"

\* C2 as stated: whenever 2 h < delta <= 30 h, get_metar is never invoked and
\* get_forecast is invoked only after get_taf was attempted and failed.
C2_TafAlwaysBeforeForecast ==
    (variant = "app" /\ TwoHours < delta /\ delta <= ThirtyHours) =>
        /\ ~Invoked("get_metar")
        /\ (Invoked("get_forecast") => Failed("get_taf") /\ TierCalls[1].fn = "get_taf")

\* C2, amended: whenever 2 h < delta <= 30 h, get_metar is never invoked; and
\* when a station was resolved, get_forecast is invoked only after get_taf was
\* attempted and failed.
C2_TafBeforeForecastWithStation ==
    (variant = "app" /\ TwoHours < delta /\ delta <= ThirtyHours) =>
        /\ ~Invoked("get_metar")
        /\ (metar_station # None /\ Invoked("get_forecast") =>
                Failed("get_taf") /\ TierCalls[1].fn = "get_taf")
        /\ (metar_station # None /\ pc \in {"nws", "sun", "evaluate"} =>
                TierCalls # <<>> /\ TierCalls[1].fn = "get_taf")

C2_Witness ==
    /\ variant = "app" /\ pc = "done" /\ result # None
    /\ delta = ThirtyHours
    /\ TierCalls = <<Call("get_taf", FALSE), Call("get_forecast", TRUE)>>
    /\ Res.source = "NWS"

\* C3: whenever delta > 30 h, the only weather adapter a request invokes is
\* get_forecast: neither get_metar nor get_taf is invoked.
C3_OnlyForecastBeyond30h ==
    (variant = "app" /\ delta > ThirtyHours) =>
        \A i \in DOMAIN TierCalls : TierCalls[i].fn = "get_forecast"

C3_Witness ==
    /\ variant = "app" /\ pc = "done" /\ result # None
    /\ delta > ThirtyHours
    /\ metar_station # None
    /\ TierCalls = <<Call("get_forecast", TRUE)>>

\* C4 as stated: within a request each of get_metar, get_taf and get_forecast
\* is invoked at most once, a failed get_metar is followed by get_taf, and a
\* failed get_taf is followed by get_forecast.
C4_FailureAlwaysFallsThrough ==
    variant = "app" =>
        /\ \A fn \in {"get_metar", "get_taf", "get_forecast"} : Times(fn) <= 1
        /\ (pc \in {"nws", "sun", "evaluate"} /\ Failed("get_metar") => Invoked("get_taf"))
        /\ (PastCascade /\ Failed("get_taf") => Invoked("get_forecast"))

\* C4, amended: each of get_metar, get_taf and get_forecast is invoked at most
\* once per request, a failed get_metar is followed by get_taf, and a failed
\* get_taf is followed by get_forecast whenever the grid lookup supplied an
\* hourly-forecast URL.
C4_FailureFallsThroughWithGrid ==
    variant = "app" =>
        /\ \A fn \in {"get_metar", "get_taf", "get_forecast"} : Times(fn) <= 1
        /\ (pc \in {"nws", "sun", "evaluate"} /\ Failed("get_metar") => Invoked("get_taf"))
        /\ (PastCascade /\ Failed("get_taf")
              /\ nws_data # None /\ Val(nws_data).forecast_hourly # None
                => Invoked("get_forecast"))
        /\ (Failed("get_metar") /\ Invoked("get_taf") =>
                TierCalls[1].fn = "get_metar" /\ TierCalls[2].fn = "get_taf")

C4_Witness ==
    /\ variant = "app" /\ pc = "done" /\ result # None
    /\ TierCalls = <<Call("get_metar", FALSE), Call("get_taf", FALSE),
                     Call("get_forecast", TRUE)>>

Reasons == Res.failed_reasons
CountOf(crits) == Cardinality({i \in DOMAIN Reasons : Reasons[i].crit \in crits})
HasReason(crit) == \E i \in DOMAIN Reasons : Reasons[i].crit = crit
DaylightCrits == {"before sunrise", "after sunset"}
Answered == pc = "done" /\ result # None
\* How many hazard words the condition text holds
HazardWords ==
    Cardinality({j \in DOMAIN BAD_CONDITIONS :
                    Contains(Lower(Val(condition)), BAD_CONDITIONS[j])})
\* The criteria the observation and the daylight window fail
FailingCriteria ==
    (IF FGt(wind_mph, 157) THEN {"wind"} ELSE {})
    \cup (IF FLt(visibility, 30) THEN {"visibility"} ELSE {})
    \cup (IF cloud_base < 500 THEN {"cloud base"} ELSE {})
    \cup (IF HazardWords > 0 THEN {"adverse conditions"} ELSE {})
    \cup (IF sunrise # None /\ sunset # None
             /\ (selected_time < Val(sunrise) \/ selected_time > Val(sunset))
          THEN {"daylight"} ELSE {})

\* C5: when no tier of a request succeeded, the result's source is the
\* unavailable one and it carries wind 0, visibility 0.0, ceiling 10000 ft and
\* condition "Unknown".
C5_AllFailedGivesDefaults ==
    (variant = "app" /\ Answered /\ \A i \in DOMAIN TierCalls : ~TierCalls[i].ok) =>
        /\ Res.source = "UNAVAILABLE"
        /\ Res.wind_mph = F(0)
        /\ Res.visibility = F(0)
        /\ Res.cloud_base = 10000
        /\ Res.condition = TxtUnknown

C5_Witness ==
    /\ variant = "app" /\ Answered
    /\ TierCalls = <<Call("get_metar", FALSE), Call("get_taf", FALSE),
                     Call("get_forecast", FALSE)>>
    /\ Res.source = "UNAVAILABLE"

\* C6: in both variants, the decision of a result is Go exactly when its list
\* of failure reasons is empty, and No-Go otherwise.
C6_GoIffNoReasons ==
    Answered =>
        /\ Res.go_nogo \in {"Go", "No-Go"}
        /\ (Res.go_nogo = "Go" <=> Reasons = <<>>)

C6_Witness ==
    /\ variant = "Working" /\ Answered
    /\ Res.go_nogo = "No-Go" /\ Len(Reasons) = 1

\* C7 as stated: wind passes iff wind <= 15.7 mph, visibility iff >= 3.0 sm,
\* ceiling iff >= 500 ft, and each pass flag of the result is false exactly
\* when the reason of its criterion is in the failure list.
C7_FlagsMatchReasons ==
    Answered =>
        /\ (Res.wind_pass <=> FLe(wind_mph, 157))
        /\ (Res.visibility_pass <=> FGe(visibility, 30))
        /\ (Res.cloud_pass <=> cloud_base >= 500)
        /\ (~Res.wind_pass <=> HasReason("wind"))
        /\ (~Res.visibility_pass <=> HasReason("visibility"))
        /\ (~Res.cloud_pass <=> HasReason("cloud base"))
        /\ (~Res.condition_pass <=> HasReason("adverse conditions"))

\* C8: every criterion contributes at most one reason: the list holds one
\* reason for each failing criterion and no other, so at most five, one for a
\* condition text with several hazard words, and exactly one when a single
\* criterion fails.
C8_OneReasonPerCriterion ==
    Answered =>
        /\ Len(Reasons) <= 5
        /\ \A c \in {"wind", "visibility", "cloud base", "adverse conditions"} :
              CountOf({c}) <= 1
        /\ CountOf(DaylightCrits) <= 1
        /\ (HazardWords >= 2 => CountOf({"adverse conditions"}) = 1)
        /\ Len(Reasons) = Cardinality(FailingCriteria)

C8_Witness ==
    /\ variant = "app" /\ Answered
    /\ HazardWords = 2
    /\ Len(Reasons) = 5

\* C9: when sunrise and sunset could not be obtained, daylight adds no reason,
\* the decision is Go exactly when none of the four weather criteria fails, and
\* the result shows no sunrise and no remaining flight time, which a result
\* with a checked daylight window within daylight always shows.
C9_UnknownDaylightExcluded ==
    (variant = "app" /\ Answered) =>
        /\ (Failed("get_sunrise_sunset") =>
              /\ CountOf(DaylightCrits) = 0
              /\ (Res.go_nogo = "Go" <=>
                    ~FGt(wind_mph, 157) /\ ~FLt(visibility, 30)
                    /\ cloud_base >= 500 /\ HazardWords = 0)
              /\ Res.sunrise = None /\ Res.sunset = None
              /\ Res.flight_time_remaining = None)
        /\ (Succeeded("get_sunrise_sunset") =>
              /\ Res.sunrise # None /\ Res.sunset # None
              /\ (CountOf(DaylightCrits) = 0 => Res.flight_time_remaining # None))

C9_Witness ==
    /\ variant = "app" /\ Answered
    /\ Failed("get_sunrise_sunset")
    /\ Res.go_nogo = "Go"

\* C10 as stated: with sunrise and sunset known, the result has the reason
\* "before sunrise" with the whole minutes left iff the flight is before
\* sunrise, the reason "after sunset" with the whole minutes passed iff it is
\* after sunset, and otherwise, a flight exactly at sunrise or at sunset
\* included, no daylight reason and the time remaining until sunset.
C10_DaylightClassification ==
    (Answered /\ sunrise # None /\ sunset # None) =>
        LET before == selected_time < Val(sunrise)
            after == selected_time > Val(sunset)
        IN /\ (HasReason("before sunrise") <=> before)
           /\ (HasReason("after sunset") <=> after)
           /\ (before => Reasons[1] =
                 Reason("before sunrise", (Val(sunrise) - selected_time) \div 60))
           /\ (after => Reasons[1] =
                 Reason("after sunset", (selected_time - Val(sunset)) \div 60))
           /\ (~before /\ ~after =>
                 CountOf(DaylightCrits) = 0 /\ Res.flight_time_remaining # None)

(***************************************************************************)
(* Input validation and robustness of src/app.py                           *)
(***************************************************************************)
\* The request was turned away: an error, no result, no adapter and no
\* network request
Rejected ==
    /\ pc = "done" /\ error # None /\ result = None
    /\ calls = <<>> /\ net = <<>>

\* The coordinate fields the chosen format reads
CoordinateFields(f) ==
    IF f.coordFormat = "decimal" THEN {f.lat_decimal, f.lon_decimal}
    ELSE {f.lat_dms.deg, f.lat_dms.min, f.lat_dms.sec,
          f.lon_dms.deg, f.lon_dms.min, f.lon_dms.sec}
\* The fields without which no coordinate can be read: the decimal fields or
\* the degrees
RequiredFields(f) ==
    IF f.coordFormat = "decimal" THEN {f.lat_decimal, f.lon_decimal}
    ELSE {f.lat_dms.deg, f.lon_dms.deg}

\* The value the fields of one coordinate stand for, in arcseconds
DmsValue(dms) ==
    LET magnitude == dms.deg.v * 3600 + dms.min.v * 60 + dms.sec.v
    IN IF dms.dir \in {"S", "W"} THEN -magnitude ELSE magnitude
EnteredLat(f) == IF f.coordFormat = "decimal" THEN f.lat_decimal.v ELSE DmsValue(f.lat_dms)
EnteredLon(f) == IF f.coordFormat = "decimal" THEN f.lon_decimal.v ELSE DmsValue(f.lon_dms)
OutOfRange(f) ==
    \/ \E tok \in CoordinateFields(f) : tok.k = "nan"
    \/ EnteredLat(f) < -90 * 3600 \/ EnteredLat(f) > 90 * 3600
    \/ EnteredLon(f) < -180 * 3600 \/ EnteredLon(f) > 180 * 3600

UnknownSite(f) == f.site \notin DOMAIN FLIGHT_SITES \cup {"Custom"}
MalformedWhen(f) == f.when = None

\* Invalid input as the claim lists it: any coordinate field missing counts
InvalidAsListed(f) ==
    \/ UnknownSite(f)
    \/ MalformedWhen(f)
    \/ /\ f.site = "Custom"
       /\ \/ \E tok \in CoordinateFields(f) : tok.k \in {"absent", "bad"}
          \/ OutOfRange(f)

\* Invalid input as the code draws it: only a missing decimal or degrees field
\* counts as missing
InvalidInput(f) ==
    \/ UnknownSite(f)
    \/ MalformedWhen(f)
    \/ /\ f.site = "Custom"
       /\ \/ \E tok \in RequiredFields(f) : tok.k = "absent"
          \/ \E tok \in CoordinateFields(f) : tok.k = "bad"
          \/ OutOfRange(f)

\* C11 as stated: a request of app.py whose input is invalid (a coordinate out
\* of range, a missing or non-numeric coordinate field, an unknown site, a
\* malformed date/time) is rejected with an error and no result, and makes no
\* network request
C11_InvalidInputRejected ==
    (variant = "app" /\ pc # "idle" /\ InvalidAsListed(form)) => Rejected

\* C11 amended: the same, where a missing field means a missing decimal or
\* degrees field; empty minutes and seconds are read as zero and accepted
C11_InvalidRequiredInputRejected ==
    (variant = "app" /\ pc # "idle" /\ InvalidInput(form)) => Rejected

\* a custom form whose degrees field is empty has been turned away
C11_Witness ==
    /\ variant = "app" /\ Rejected
    /\ form.site = "Custom" /\ form.coordFormat = "dms"
    /\ form.lat_dms.deg.k = "absent"
    /\ error = Some("Invalid coordinates")

\* C12: a request of app.py with valid coordinates and date/time always
\* completes with a computed Go/No-Go result and no error, whatever the
\* services answer (a forecast period without a start time or with a null
\* short forecast, a station search that finds nothing)
C12_ValidRequestAlwaysAnswered ==
    (variant = "app" /\ pc = "done" /\ ~InvalidInput(form))
        => (result # None /\ error = None
            /\ Val(result).go_nogo \in {"Go", "No-Go"})

(***************************************************************************)
(* The process-wide cache of get_nws_grid                                  *)
(***************************************************************************)
\* The grid lookup this request holds was answered during this request
OwnLookup == nws_data # None => \E i \in DOMAIN net : net[i] = "points"

\* C13: requests share no mutable state: the process-wide variable of app.py
\* keeps the value it had at start-up whatever requests are handled, and the
\* gridded-forecast lookup a request uses is one made by that request for its
\* own coordinates, never one left by another request
C13_NoSharedMutableState ==
    /\ nws_cache = <<>>
    /\ variant = "app" => OwnLookup

(***************************************************************************)
(* The adapters                                                            *)
(***************************************************************************)
\* C14: in src/Working/app.py, when delta <= 2 h and get_metar_conditions
\* fails, the forecast for the flight time (get_taf_forecast) is attempted
\* and the result is not reported with source 'metar'
C14_WorkingMetarFailureFallsThrough ==
    (variant = "Working" /\ Answered /\ delta <= TwoHours
       /\ Failed("get_metar_conditions"))
        => (Invoked("get_taf_forecast") /\ Res.source # "metar")

\* The last adapter this request invoked
LastCall == calls[Len(calls)]
\* The request of src/app.py has just had its get_taf call answered
TafAnswered ==
    /\ variant = "app" /\ pc = "nws"
    /\ calls # <<>> /\ LastCall.fn = "get_taf"
\* The segments of the TAF answer
Segments ==
    IF Val(answer).kind = "ok" THEN Val(answer).forecasts ELSE <<>>
InWindow(seg, sel) == seg.fcst_time_from <= sel /\ sel <= seg.fcst_time_to
\* The observation get_taf makes of one segment
SegmentValues(seg) ==
    Val(get_taf(metar_station, [kind |-> "ok", forecasts |-> <<seg>>]))

\* C15: get_taf of src/app.py returns the values of a segment whose validity
\* window contains the flight time, and fails when no segment's window
\* contains it
C15_TafSegmentContainsFlightTime ==
    TafAnswered =>
        IF \E i \in DOMAIN Segments : InWindow(Segments[i], selected_time)
        THEN /\ LastCall.ok /\ source = "taf"
             /\ \E i \in DOMAIN Segments :
                    /\ InWindow(Segments[i], selected_time)
                    /\ Observation(wind_mph, visibility, cloud_base, condition)
                         = SegmentValues(Segments[i])
        ELSE ~LastCall.ok /\ source # "taf"

\* The request of src/app.py has just had its get_metar call answered by a
\* document that holds a METAR element
MetarAnswered ==
    /\ variant = "app" /\ pc = "taf"
    /\ calls # <<>> /\ LastCall.fn = "get_metar"
    /\ Val(answer).kind = "ok"
\* A field that is absent or is no number
Unusable(tok) == tok.k \in {"absent", "bad"}
\* The documented values of the fields of a METAR element
DocumentedWind(tok) ==
    IF Unusable(tok) \/ tok.plus THEN F(0)
    ELSE IF tok.k = "nan" THEN NaN ELSE F(KtToMph(tok.v))
DocumentedVisibility(tok) ==
    IF Unusable(tok) THEN F(0)
    ELSE IF tok.k = "nan" THEN NaN ELSE F(tok.v)
DocumentedCondition(t) ==
    IF t = None \/ Val(t) = TxtEmpty THEN Some(TxtUnknown) ELSE t

\* C16: get_metar of src/app.py, given a METAR element, succeeds whatever
\* single field is missing or malformed, with that field at its documented
\* default (wind 0, visibility 0.0, ceiling 10000 ft, condition "Unknown")
\* and the other fields at their parsed values
C16_MetarFieldDefaults ==
    MetarAnswered =>
        /\ LastCall.ok /\ source = "metar"
        /\ wind_mph = DocumentedWind(Val(answer).wind)
        /\ visibility = DocumentedVisibility(Val(answer).vis)
        /\ cloud_base = CloudBaseOf(Val(answer).sky)
        /\ condition = DocumentedCondition(Val(answer).cat)

\* Tier 3 has just succeeded, in either variant: the answer is the hourly
\* forecast
ForecastAnswered == pc = "sun" /\ source = "forecast"
HourlyPeriods == Val(answer).periods
\* No period starts strictly closer to the flight time than period i
Nearest(i) ==
    \A j \in DOMAIN HourlyPeriods :
        Abs(Val(HourlyPeriods[i].startTime) - selected_time)
            <= Abs(Val(HourlyPeriods[j].startTime) - selected_time)
\* The wind each variant reads from a period
WindIsOf(p) ==
    IF variant = "app" THEN wind_mph = parse_forecast_wind(p.windSpeed)
    ELSE p.windSpeed # None /\ wind_mph = WFirstNumber(Val(p.windSpeed))

\* C17: when Tier 3 succeeds, the wind and condition are those of a period
\* whose start time is nearest to the flight time (no period is strictly
\* closer), and the observation and the result carry visibility 10.0 sm and
\* ceiling 10000 ft
C17_ForecastNearestPeriod ==
    /\ ForecastAnswered =>
          /\ visibility = F(100) /\ cloud_base = Unlimited
          /\ \E i \in DOMAIN HourlyPeriods :
                /\ Nearest(i)
                /\ condition = ShortForecast(HourlyPeriods[i])
                /\ WindIsOf(HourlyPeriods[i])
    /\ (Answered /\ source = "forecast") =>
          (Res.visibility = F(100) /\ Res.cloud_base = Unlimited)

\* of two periods the second, ten minutes after the flight time, was chosen
\* over the first, thirty minutes before it
C17_Witness ==
    /\ variant = "app" /\ ForecastAnswered
    /\ Len(HourlyPeriods) = 2
    /\ HourlyPeriods[1].startTime = Some(selected_time - 1800)
    /\ HourlyPeriods[2].startTime = Some(selected_time + 600)
    /\ condition = ShortForecast(HourlyPeriods[2])
    /\ wind_mph = F(161)

(***************************************************************************)
(* Decisions without data                                                  *)
(***************************************************************************)
WeatherAdapters ==
    {"get_metar", "get_taf", "get_forecast", "get_metar_conditions", "get_taf_forecast"}
\* No weather source gave this request any data
NoWeatherData ==
    \A i \in DOMAIN calls : calls[i].fn \in WeatherAdapters => ~calls[i].ok

\* C18: in both variants, a result made when no tier succeeded (source
\* 'unavailable' or 'none', or no weather adapter succeeded) is a No-Go that
\* lists the visibility criterion, the default visibility being 0.0; Go is
\* never decided without data from a weather source
C18_NoDataNoGo ==
    Answered =>
        /\ (source \in {"unavailable", "none"} \/ NoWeatherData)
              => (Res.go_nogo = "No-Go" /\ HasReason("visibility")
                  /\ visibility = F(0))
        /\ Res.go_nogo = "Go" => ~NoWeatherData

\* a request of src/app.py in daylight, every tier failed: the default
\* visibility is the one reason of the No-Go
C18_Witness ==
    /\ variant = "app" /\ Answered /\ source = "unavailable"
    /\ Failed("get_metar") /\ Failed("get_taf")
    /\ Res.go_nogo = "No-Go"
    /\ Len(Reasons) = 1 /\ Reasons[1].crit = "visibility"

(***************************************************************************)
(* The entries of nws_cache                                                *)
(***************************************************************************)
\* The key of the request that is about to call get_nws_grid
RequestKey == CacheKey(lat, lon)
\* What one step does to the cache
CacheStep ==
    \* an entry is never modified or removed
    /\ \A k \in DOMAIN nws_cache :
          k \in DOMAIN nws_cache' /\ nws_cache'[k] = nws_cache[k]
    \* an entry is added only by get_nws_grid, under the key of its
    \* coordinates, from the HTTP 200 answer it has just received
    /\ \A k \in DOMAIN nws_cache' \ DOMAIN nws_cache :
          /\ pc = "grid" /\ k = RequestKey
          /\ net' = Append(net, "points")
          /\ answer' # None /\ Val(answer').kind = "ok"
          /\ nws_cache'[k] = Some([forecast_hourly |-> Val(answer').forecastHourly,
                                    office |-> Val(answer').office])
          /\ nws_data' = nws_cache'[k]
    \* a failed lookup adds no entry
    /\ (pc = "grid" /\ answer' # None /\ Val(answer').kind # "ok")
          => (nws_cache' = nws_cache /\ nws_data' = None)
    \* a call whose key is cached makes no network call and returns the entry
    /\ (pc = "grid" /\ RequestKey \in DOMAIN nws_cache)
          => (net' = net /\ answer' = answer /\ nws_data' = nws_cache[RequestKey])

\* C19: every entry of nws_cache is the data of the first successful lookup
\* for its key: a step adds an entry only from an HTTP 200 answer to a call
\* whose key was not cached, a failed lookup adds none, no entry is ever
\* modified or removed, and a call whose key is cached makes no network
\* request and returns the cached entry
C19_CacheEntriesFirstSuccess == [][CacheStep]_vars

\* a request has been handed a cached entry without a network request
C19_Witness ==
    /\ variant = "app" /\ pc = "station"
    /\ calls = <<Call("get_nws_grid", TRUE)>> /\ net = <<>>
    /\ CacheKey(lat, lon) \in DOMAIN nws_cache
    /\ nws_data = nws_cache[CacheKey(lat, lon)]
====
